---- MODULE Spec2Model ----
(***************************************************************************)
(* Model of the Smart-data-merger engine (src/core.py, class MergeEngine)  *)
(* and of the tkinter front end that drives it (src/interface.py).         *)
(*                                                                         *)
(* Text is modelled as a sequence of one-character strings, a DataFrame    *)
(* as a record [cols, rows] (rows[i][j] is the cell of row i under the     *)
(* j-th column label), an optional value (None or a value) as a sequence   *)
(* of length 0 or 1, and a ratio as a pair <<numerator, denominator>>.     *)
(***************************************************************************)
EXTENDS Integers, Sequences, FiniteSets, Bags, TLC

(***************************************************************************)
(* Text                                                                    *)
(***************************************************************************)
LowerCase == <<"a","b","c","d","e","f","g","h","i","j","k","l","m",
               "n","o","p","q","r","s","t","u","v","w","x","y","z">>

UpperCase == <<"A","B","C","D","E","F","G","H","I","J","K","L","M",
               "N","O","P","Q","R","S","T","U","V","W","X","Y","Z">>

\* str.upper() on one character
UpperChar(c) ==
    IF \E i \in DOMAIN LowerCase : LowerCase[i] = c
    THEN UpperCase[CHOOSE i \in DOMAIN LowerCase : LowerCase[i] = c]
    ELSE c

\* str.lower() on one character
LowerChar(c) ==
    IF \E i \in DOMAIN UpperCase : UpperCase[i] = c
    THEN LowerCase[CHOOSE i \in DOMAIN UpperCase : UpperCase[i] = c]
    ELSE c

\* str.upper()
Upper(s) == [i \in DOMAIN s |-> UpperChar(s[i])]

\* str.lower()
Lower(s) == [i \in DOMAIN s |-> LowerChar(s[i])]

IsSpace(c) == c = " "

\* a strip that removes at most one blank at each end
StripOnce(s) ==
    LET a == IF Len(s) > 0 /\ IsSpace(s[1]) THEN Tail(s) ELSE s
    IN  IF Len(a) > 0 /\ IsSpace(a[Len(a)]) THEN SubSeq(a, 1, Len(a) - 1) ELSE a

\* str.strip(): leading and trailing whitespace removed
Strip(s) ==
    LET keep == {i \in DOMAIN s : ~IsSpace(s[i])}
    IN  IF keep = {} THEN <<>>
        ELSE LET lo == CHOOSE i \in keep : \A j \in keep : i <= j
                 hi == CHOOSE i \in keep : \A j \in keep : j <= i
             IN  SubSeq(s, lo, hi)

\* str.replace('.0', ''): every non-overlapping occurrence, left to right
RECURSIVE ReplaceDotZero(_)
ReplaceDotZero(s) ==
    IF Len(s) = 0 THEN <<>>
    ELSE IF Len(s) >= 2 /\ s[1] = "." /\ s[2] = "0"
         THEN ReplaceDotZero(SubSeq(s, 3, Len(s)))
         ELSE <<s[1]>> \o ReplaceDotZero(Tail(s))

\* str.endswith(suffix)
EndsWith(s, suffix) ==
    /\ Len(s) >= Len(suffix)
    /\ SubSeq(s, Len(s) - Len(suffix) + 1, Len(s)) = suffix

RightSuffix == <<"_","r","i","g","h","t">>

(***************************************************************************)
(* Cells and columns                                                       *)
(***************************************************************************)
\* the missing value (NaN / None) of a cell
NaN == <<"<NaN>">>

\* Series.astype(str) on one cell: a missing value becomes the text 'nan'
AsStr(v) == IF v = NaN THEN <<"n","a","n">> ELSE v

Range(s) == {s[i] : i \in DOMAIN s}

Min(a, b) == IF a <= b THEN a ELSE b

\* the positions of the columns labelled name
ColIdx(df, name) == {j \in DOMAIN df.cols : df.cols[j] = name}

\* name in df.columns
HasCol(df, name) == ColIdx(df, name) # {}

\* df[name] selects one column (a Series) only when the label is unique;
\* a repeated label selects a DataFrame
IsSeries(df, name) == Cardinality(ColIdx(df, name)) = 1

\* the cells of the column labelled name, in row order
Column(df, name) ==
    LET j == CHOOSE j \in ColIdx(df, name) : TRUE
    IN  [i \in DOMAIN df.rows |-> df.rows[i][j]]

\* DataFrame.empty: no rows or no columns
IsEmptyDF(df) == Len(df.rows) = 0 \/ Len(df.cols) = 0

\* Series.nunique(): the number of distinct non-missing values
NUnique(cells) == Cardinality(Range(cells) \ {NaN})

NoDuplicates(s) == \A i, j \in DOMAIN s : s[i] = s[j] => i = j

(***************************************************************************)
(* fuzz.ratio: the similarity of two column names, 0..100                  *)
(***************************************************************************)
\* the common blocks a[i..i+k-1] = b[j..j+k-1], k >= 1
CommonBlocks(a, b) ==
    {t \in (DOMAIN a) \X (DOMAIN b) \X (1..Min(Len(a), Len(b))) :
        /\ t[1] + t[3] - 1 <= Len(a)
        /\ t[2] + t[3] - 1 <= Len(b)
        /\ SubSeq(a, t[1], t[1] + t[3] - 1) = SubSeq(b, t[2], t[2] + t[3] - 1)}

\* SequenceMatcher.find_longest_match: the longest block, the earliest in a
\* among the longest, the earliest in b among those
LongestMatch(a, b) ==
    CHOOSE t \in CommonBlocks(a, b) :
        \A u \in CommonBlocks(a, b) :
            \/ u[3] < t[3]
            \/ u[3] = t[3] /\ t[1] < u[1]
            \/ u[3] = t[3] /\ t[1] = u[1] /\ t[2] <= u[2]

\* SequenceMatcher.get_matching_blocks: the total size of the blocks found by
\* taking the longest match and recursing on the pieces to its left and right
RECURSIVE MatchedChars(_, _)
MatchedChars(a, b) ==
    IF CommonBlocks(a, b) = {} THEN 0
    ELSE LET t == LongestMatch(a, b)
         IN  t[3]
             + MatchedChars(SubSeq(a, 1, t[1] - 1), SubSeq(b, 1, t[2] - 1))
             + MatchedChars(SubSeq(a, t[1] + t[3], Len(a)),
                            SubSeq(b, t[2] + t[3], Len(b)))

\* int(round(num / den)), Python 3 rounding (a tie goes to the even integer)
RoundHalfEven(num, den) ==
    LET q == num \div den
        r == num % den
    IN  IF 2 * r < den THEN q
        ELSE IF 2 * r > den THEN q + 1
        ELSE IF q % 2 = 0 THEN q ELSE q + 1

\* fuzz.ratio(s1, s2): 100 for equal texts, 0 when one is empty, otherwise
\* int(round(100 * 2 * M / T)) of SequenceMatcher.ratio()
FuzzRatio(s1, s2) ==
    IF s1 = s2 THEN 100
    ELSE IF Len(s1) = 0 \/ Len(s2) = 0 THEN 0
    ELSE RoundHalfEven(200 * MatchedChars(s1, s2), Len(s1) + Len(s2))

(***************************************************************************)
(* MergeEngine.load_file                                                   *)
(***************************************************************************)
SupportedExt == {".xlsx", ".xls", ".csv", ".txt"}

\* df.columns.str.strip()
StripColumns(cols) == [j \in DOMAIN cols |-> Strip(cols[j])]

\* What load_file makes of a file [ext, reads, header, rows]: the frame it
\* stores, or nothing when it returns False (unsupported extension, a file no
\* reader or encoding can read, an empty table).
LoadedFrame(file) ==
    IF file.ext \notin SupportedExt THEN <<>>
    ELSE IF ~file.reads THEN <<>>
    ELSE IF IsEmptyDF([cols |-> file.header, rows |-> file.rows]) THEN <<>>
    ELSE <<[cols |-> StripColumns(file.header), rows |-> file.rows]>>

(***************************************************************************)
(* MergeEngine.detect_merge_keys                                           *)
(***************************************************************************)
\* Comparison of ratios <<n, d>> with d > 0
RatioLT(a, b) == a[1] * b[2] < b[1] * a[2]
RatioEQ(a, b) == a[1] * b[2] = b[1] * a[2]
RatioGE(a, b) == ~RatioLT(a, b)

\* the uniqueness test with a threshold of 0.6
IsUniqueColumnLoose(df, col) == 10 * NUnique(Column(df, col)) > 6 * Len(df.rows)

\* unique_ratio > 0.7 with unique_ratio = df[col].nunique() / len(df)
IsUniqueColumn(df, col) == 10 * NUnique(Column(df, col)) > 7 * Len(df.rows)

\* the columns of df with reasonable uniqueness, in column order
UniqueCols(df) == SelectSeq(df.cols, LAMBDA c : IsUniqueColumn(df, c))

\* astype(str).str.strip().str.replace('.0', '').str.upper() on one cell
DetectToken(v) == Upper(ReplaceDotZero(Strip(AsStr(v))))

AbsentTokens == {<<>>, <<"N","A","N">>, <<"N","O","N","E">>, <<"N","U","L","L">>}

\* the set of tokens of a column, empty/null tokens removed
TokenSet(df, col) == {DetectToken(v) : v \in Range(Column(df, col))} \ AbsentTokens

\* (name_similarity * 0.3) + (overlap_ratio * 0.7) as an exact ratio, with
\* name_similarity = ns / 100 and overlap_ratio = common / smaller
CombinedScore(ns, common, smaller) == <<3 * ns * smaller + 700 * common, 1000 * smaller>>

\* combined_score >= min_match_ratio, min_match_ratio given in thousandths
ScoreAtLeast(score, permille) == RatioGE(score, <<permille, 1000>>)

\* the candidate (col1, col2, combined_score, len(intersection)) of a column
\* pair, or nothing when a token set is empty or the score is below the ratio
PairCandidate(d1, d2, col1, col2, permille) ==
    LET values1 == TokenSet(d1, col1)
        values2 == TokenSet(d2, col2)
        common  == Cardinality(values1 \cap values2)
        smaller == Min(Cardinality(values1), Cardinality(values2))
        ns      == FuzzRatio(Lower(col1), Lower(col2))
        score   == CombinedScore(ns, common, smaller)
    IN  IF values1 = {} \/ values2 = {} THEN <<>>
        ELSE IF ScoreAtLeast(score, permille)
             THEN <<[col1 |-> col1, col2 |-> col2, score |-> score, matches |-> common]>>
             ELSE <<>>

\* the candidates in the order the nested loops append them
RECURSIVE CandidatesFrom(_, _, _, _, _, _)
CandidatesFrom(d1, d2, cols1, cols2, i, permille) ==
    IF i > Len(cols1) * Len(cols2) THEN <<>>
    ELSE LET col1 == cols1[((i - 1) \div Len(cols2)) + 1]
             col2 == cols2[((i - 1) % Len(cols2)) + 1]
         IN  PairCandidate(d1, d2, col1, col2, permille)
             \o CandidatesFrom(d1, d2, cols1, cols2, i + 1, permille)

\* the sort key (x[2], x[3]) of a is at least that of b
SortKeyGE(a, b) ==
    \/ RatioLT(b.score, a.score)
    \/ RatioEQ(a.score, b.score) /\ a.matches >= b.matches

\* x put into a list sorted non-increasing, behind the entries that are not
\* smaller (the sort is stable)
RECURSIVE InsertSorted(_, _)
InsertSorted(x, sorted) ==
    IF sorted = <<>> THEN <<x>>
    ELSE IF SortKeyGE(Head(sorted), x)
         THEN <<Head(sorted)>> \o InsertSorted(x, Tail(sorted))
         ELSE <<x>> \o sorted

\* the candidates left in the order the loops found them
Unsorted(cands) == cands

\* candidates.sort(key=lambda x: (x[2], x[3]), reverse=True)
RECURSIVE SortCandidates(_)
SortCandidates(cands) ==
    IF cands = <<>> THEN <<>>
    ELSE InsertSorted(cands[Len(cands)], SortCandidates(SubSeq(cands, 1, Len(cands) - 1)))

\* the uniqueness loops raise when a column label is repeated: df[col] is
\* then a DataFrame and the test "unique_ratio > 0.7" has no truth value
DetectRaises(d1, d2) == ~NoDuplicates(d1.cols) \/ ~NoDuplicates(d2.cols)

\* the sorted candidates of two loaded frames
DetectCandidates(d1, d2, permille) ==
    SortCandidates(CandidatesFrom(d1, d2, UniqueCols(d1), UniqueCols(d2), 1, permille))

\* [(col1, col2, score) for col1, col2, score, _ in candidates]
FormatKeys(cands) ==
    [i \in DOMAIN cands |-> <<cands[i].col1, cands[i].col2, cands[i].score>>]

(***************************************************************************)
(* MergeEngine.validate_merge_keys                                         *)
(***************************************************************************)
\* self.df[key].astype(str).str.strip(), then the rows that are neither ''
\* nor 'nan'
CleanValues(df, key) ==
    SelectSeq([i \in DOMAIN df.rows |-> Strip(AsStr(Column(df, key)[i]))],
              LAMBDA v : v # <<>> /\ v # <<"n","a","n">>)

\* the division with its operands exchanged
RatioSwapped(x, y) == IF y > 0 /\ x > 0 THEN <<y, x>> ELSE <<0, 1>>

\* x / y if y > 0 else 0
RatioOrZero(x, y) == IF y > 0 THEN <<x, y>> ELSE <<0, 1>>

\* the match ratio taken over all values instead of the distinct ones
MatchRatioOverTotal(common, unique, total) == RatioOrZero(common, total)

\* len(matches) / unique if unique > 0 else 0
MatchRatio(common, unique, total) == RatioOrZero(common, unique)

\* the warnings as two independent tests
WarningsIndependent(uniq1, uniq2, match1, match2) ==
    (IF RatioLT(uniq1, <<7, 10>>) /\ RatioLT(uniq2, <<7, 10>>)
     THEN <<"Both columns have low uniqueness - may not be good merge keys">> ELSE <<>>)
    \o (IF RatioLT(match1, <<3, 10>>) /\ RatioLT(match2, <<3, 10>>)
        THEN <<"Low overlap between files - check if columns are compatible">> ELSE <<>>)

\* the warnings of a report
Warnings(uniq1, uniq2, match1, match2) ==
    IF RatioLT(uniq1, <<7, 10>>) /\ RatioLT(uniq2, <<7, 10>>)
    THEN <<"Both columns have low uniqueness - may not be good merge keys">>
    ELSE IF RatioLT(match1, <<3, 10>>) /\ RatioLT(match2, <<3, 10>>)
         THEN <<"Low overlap between files - check if columns are compatible">>
         ELSE <<>>

FailedReport(reason) == [valid |-> FALSE, error |-> reason]

\* the statistics of two existing key columns
KeyStatistics(d1, d2, key1, key2) ==
    LET clean1  == CleanValues(d1, key1)
        clean2  == CleanValues(d2, key2)
        unique1 == Cardinality(Range(clean1))
        unique2 == Cardinality(Range(clean2))
        total1  == Len(clean1)
        total2  == Len(clean2)
        matches == {Upper(v) : v \in Range(clean1)} \cap {Upper(v) : v \in Range(clean2)}
        common  == Cardinality(matches)
    IN  [valid |-> TRUE,
         file1_total |-> total1,
         file1_unique |-> unique1,
         file1_uniqueness |-> RatioOrZero(unique1, total1),
         file2_total |-> total2,
         file2_unique |-> unique2,
         file2_uniqueness |-> RatioOrZero(unique2, total2),
         common_values |-> common,
         match_ratio_file1 |-> MatchRatio(common, unique1, total1),
         match_ratio_file2 |-> MatchRatio(common, unique2, total2),
         warnings |-> Warnings(RatioOrZero(unique1, total1), RatioOrZero(unique2, total2),
                               MatchRatio(common, unique1, total1),
                               MatchRatio(common, unique2, total2))]

\* the dictionary validate_merge_keys returns; o1, o2 are self.df1, self.df2
ValidateReport(o1, o2, key1, key2) ==
    IF o1 = <<>> \/ o2 = <<>> THEN FailedReport("Files not loaded")
    ELSE IF ~HasCol(o1[1], key1) THEN FailedReport("Column not found in first file")
    ELSE IF ~HasCol(o2[1], key2) THEN FailedReport("Column not found in second file")
    ELSE IF ~IsSeries(o1[1], key1) \/ ~IsSeries(o2[1], key2)
         THEN FailedReport("Error validating keys")
    ELSE KeyStatistics(o1[1], o2[1], key1, key2)

(***************************************************************************)
(* MergeEngine.perform_merge                                               *)
(***************************************************************************)
JoinTypes == {"left", "right", "inner", "outer"}

\* astype(str).str.strip().str.replace('.0', '') on one key cell
MergeToken(v) == ReplaceDotZero(Strip(AsStr(v)))

\* df[key] = df[key].astype(str).str.strip().str.replace('.0', '')
NormalizeKey(df, key) ==
    [cols |-> df.cols,
     rows |-> [i \in DOMAIN df.rows |->
                 [j \in DOMAIN df.cols |->
                    IF df.cols[j] = key THEN MergeToken(df.rows[i][j])
                    ELSE df.rows[i][j]]]]

\* the stored frame if the working frame were the stored frame itself
StoredAliased(df, key) == NormalizeKey(df, key)

\* what self.df1 / self.df2 hold once the key of the working frame has been
\* normalized: the working frame is a copy, so the stored frame is as before
StoredAfterNormalize(df, key) == df

\* DataFrame.rename(columns={old: new}) on the labels
RenameLabel(cols, old, new) == [j \in DOMAIN cols |-> IF cols[j] = old THEN new ELSE cols[j]]

\* right_columns with right_columns[right_columns.index(key2)] = key1
ReplaceFirst(cols, old, new) ==
    LET first == CHOOSE j \in DOMAIN cols :
                    cols[j] = old /\ \A k \in DOMAIN cols : cols[k] = old => j <= k
    IN  [j \in DOMAIN cols |-> IF j = first THEN new ELSE cols[j]]

\* the loop renaming every right label but the key, colliding or not
RECURSIVE ResolveAll(_, _, _, _, _)
ResolveAll(leftCols, names, rightColumns, key1, i) ==
    IF i > Len(rightColumns) THEN names
    ELSE LET col == rightColumns[i]
         IN  IF col # key1
             THEN ResolveAll(leftCols, RenameLabel(names, col, col \o RightSuffix),
                             rightColumns, key1, i + 1)
             ELSE ResolveAll(leftCols, names, rightColumns, key1, i + 1)

\* the loop over right_columns: a label that is also a left label, the key
\* excepted, is renamed to label + '_right' in the right frame as it is then
RECURSIVE ResolveConflicts(_, _, _, _, _)
ResolveConflicts(leftCols, names, rightColumns, key1, i) ==
    IF i > Len(rightColumns) THEN names
    ELSE LET col == rightColumns[i]
         IN  IF col \in Range(leftCols) /\ col # key1
             THEN ResolveConflicts(leftCols, RenameLabel(names, col, col \o RightSuffix),
                                   rightColumns, key1, i + 1)
             ELSE ResolveConflicts(leftCols, names, rightColumns, key1, i + 1)

\* the labels of the right frame when pd.merge is called
RightLabels(leftCols, rightCols, key1, key2) ==
    IF key2 # key1
    THEN ResolveConflicts(leftCols, RenameLabel(rightCols, key2, key1),
                          ReplaceFirst(rightCols, key2, key1), key1, 1)
    ELSE ResolveConflicts(leftCols, rightCols, rightCols, key1, 1)

Occurrences(cols, name) == Cardinality({j \in DOMAIN cols : cols[j] = name})

\* the data check before the merge raises on a repeated right label other
\* than the key: sample_right[col] is then a DataFrame, without tolist()
DataCheckRaises(names, key1) ==
    \E col \in Range(names) : col # key1 /\ Occurrences(names, col) > 1

\* the right labels other than the key, in column order
NonKey(names, key1) == SelectSeq(names, LAMBDA c : c # key1)

\* pd.merge(..., suffixes=('', '_right')): a right label that is also a left
\* label gets the suffix, the left label stays
SuffixedRight(leftCols, names, key1) ==
    LET other == NonKey(names, key1)
    IN  [j \in DOMAIN other |->
            IF other[j] \in Range(leftCols) THEN other[j] \o RightSuffix ELSE other[j]]

\* pd.merge raises: an unknown join type, a key label that is repeated in the
\* right frame, or suffixes that make two right labels equal
MergeRaises(leftCols, names, key1, how) ==
    \/ how \notin JoinTypes
    \/ Occurrences(names, key1) # 1
    \/ ~NoDuplicates(SuffixedRight(leftCols, names, key1))

\* the columns of the merged frame
MergedColumns(leftCols, names, key1) == leftCols \o SuffixedRight(leftCols, names, key1)

\* the characters in code point order, for the ordering of texts
CodePoints ==
    <<" ", ".", "0","1","2","3","4","5","6","7","8","9">> \o UpperCase \o <<"_">> \o LowerCase

CharRank(c) == CHOOSE i \in DOMAIN CodePoints : CodePoints[i] = c

\* a < b for texts, as Python compares str
RECURSIVE TextLT(_, _)
TextLT(a, b) ==
    IF Len(b) = 0 THEN FALSE
    ELSE IF Len(a) = 0 THEN TRUE
    ELSE IF a[1] = b[1] THEN TextLT(Tail(a), Tail(b))
    ELSE CharRank(a[1]) < CharRank(b[1])

\* the texts of a set in increasing order
RECURSIVE SortedTexts(_)
SortedTexts(S) ==
    IF S = {} THEN <<>>
    ELSE LET least == CHOOSE x \in S : \A y \in S : y = x \/ TextLT(x, y)
         IN  <<least>> \o SortedTexts(S \ {least})

\* the rows of df whose key cell equals v, in row order
RowsWithKey(df, key, v) ==
    SelectSeq([i \in DOMAIN df.rows |-> i], LAMBDA i : Column(df, key)[i] = v)

\* a join that drops the left rows without a match whatever the join type
PairsOfLeftRowMatchedOnly(left, right, key1, i, keepUnmatched) ==
    LET rs == RowsWithKey(right, key1, Column(left, key1)[i])
    IN  [n \in DOMAIN rs |-> <<i, rs[n]>>]

\* the joined row pairs <<i, j>> that left row i gives, in right row order;
\* 0 stands for no row on that side
PairsOfLeftRow(left, right, key1, i, keepUnmatched) ==
    LET rs == RowsWithKey(right, key1, Column(left, key1)[i])
    IN  IF rs = <<>> THEN (IF keepUnmatched THEN << <<i, 0>> >> ELSE <<>>)
        ELSE [n \in DOMAIN rs |-> <<i, rs[n]>>]

\* the joined row pairs that right row j gives, in left row order
PairsOfRightRow(left, right, key1, j, keepUnmatched) ==
    LET ls == RowsWithKey(left, key1, Column(right, key1)[j])
    IN  IF ls = <<>> THEN (IF keepUnmatched THEN << <<0, j>> >> ELSE <<>>)
        ELSE [n \in DOMAIN ls |-> <<ls[n], j>>]

\* an outer join that drops the keys found in the right frame only
PairsOfKeyLeftOnly(left, right, key1, v) ==
    LET ls == RowsWithKey(left, key1, v)
        rs == RowsWithKey(right, key1, v)
    IN  IF rs = <<>> THEN [n \in DOMAIN ls |-> <<ls[n], 0>>]
        ELSE [n \in 1..(Len(ls) * Len(rs)) |->
                <<ls[((n - 1) \div Len(rs)) + 1], rs[((n - 1) % Len(rs)) + 1]>>]

\* the joined row pairs of one key value of an outer join
PairsOfKey(left, right, key1, v) ==
    LET ls == RowsWithKey(left, key1, v)
        rs == RowsWithKey(right, key1, v)
    IN  IF rs = <<>> THEN [n \in DOMAIN ls |-> <<ls[n], 0>>]
        ELSE IF ls = <<>> THEN [n \in DOMAIN rs |-> <<0, rs[n]>>]
        ELSE [n \in 1..(Len(ls) * Len(rs)) |->
                <<ls[((n - 1) \div Len(rs)) + 1], rs[((n - 1) % Len(rs)) + 1]>>]

\* left and inner joins keep the order of the left rows
RECURSIVE LeftOrderPairs(_, _, _, _, _)
LeftOrderPairs(left, right, key1, i, keepUnmatched) ==
    IF i > Len(left.rows) THEN <<>>
    ELSE PairsOfLeftRow(left, right, key1, i, keepUnmatched)
         \o LeftOrderPairs(left, right, key1, i + 1, keepUnmatched)

\* a right join keeps the order of the right rows
RECURSIVE RightOrderPairs(_, _, _, _)
RightOrderPairs(left, right, key1, j) ==
    IF j > Len(right.rows) THEN <<>>
    ELSE PairsOfRightRow(left, right, key1, j, TRUE)
         \o RightOrderPairs(left, right, key1, j + 1)

\* an outer join sorts the keys lexicographically
RECURSIVE OuterPairs(_, _, _, _)
OuterPairs(left, right, key1, keys) ==
    IF keys = <<>> THEN <<>>
    ELSE PairsOfKey(left, right, key1, Head(keys))
         \o OuterPairs(left, right, key1, Tail(keys))

\* the row pairs of the join; right is the right frame with its key labelled
\* key1
JoinPairs(left, right, key1, how) ==
    CASE how = "left"  -> LeftOrderPairs(left, right, key1, 1, TRUE)
      [] how = "inner" -> LeftOrderPairs(left, right, key1, 1, FALSE)
      [] how = "right" -> RightOrderPairs(left, right, key1, 1)
      [] how = "outer" ->
            OuterPairs(left, right, key1,
                       SortedTexts(Range(Column(left, key1)) \cup Range(Column(right, key1))))

\* the cells of a merged row: the left cells (of an unmatched right row only
\* the key, taken from the right row), then the right cells other than the key
MergedRow(left, right, key1, pair) ==
    LET i == pair[1]
        j == pair[2]
        rightPos == SelectSeq([n \in DOMAIN right.cols |-> n],
                              LAMBDA n : right.cols[n] # key1)
        leftCells ==
            IF i > 0 THEN left.rows[i]
            ELSE [n \in DOMAIN left.cols |->
                    IF left.cols[n] = key1 THEN Column(right, key1)[j] ELSE NaN]
        rightCells ==
            [n \in DOMAIN rightPos |-> IF j > 0 THEN right.rows[j][rightPos[n]] ELSE NaN]
    IN  leftCells \o rightCells

\* pd.merge(left_df, right_df, on=key1, how=how, suffixes=('', '_right'))
MergeFrames(left, right, key1, how) ==
    LET pairs == JoinPairs(left, right, key1, how)
    IN  [cols |-> MergedColumns(left.cols, right.cols, key1),
         rows |-> [n \in DOMAIN pairs |-> MergedRow(left, right, key1, pairs[n])]]

\* the column checks after the merge raise when one of the first five
\* right-side labels is repeated in the result: merge_result[col] is then a
\* DataFrame and "non_null > 0" has no truth value
PostCheckRaises(leftCols, resultCols) ==
    LET rightOnly == SelectSeq(resultCols,
                        LAMBDA c : c \notin Range(leftCols) \/ EndsWith(c, RightSuffix))
        checked   == SubSeq(rightOnly, 1, Min(5, Len(rightOnly)))
    IN  \E c \in Range(checked) : Occurrences(resultCols, c) > 1

\* the merge of two loaded frames: the value returned, whether a result was
\* assigned to self.merge_result, and that result
MergeLoaded(d1, d2, key1, key2, how) ==
    LET failed == [returned |-> FALSE, stored |-> FALSE, result |-> <<>>]
    IN  IF ~IsSeries(d1, key1) \/ ~IsSeries(d2, key2) THEN failed
        ELSE LET left   == NormalizeKey(d1, key1)
                 names  == RightLabels(d1.cols, d2.cols, key1, key2)
                 right  == [cols |-> names, rows |-> NormalizeKey(d2, key2).rows]
             IN  IF DataCheckRaises(names, key1) THEN failed
                 ELSE IF MergeRaises(left.cols, names, key1, how) THEN failed
                 ELSE LET merged == MergeFrames(left, right, key1, how)
                      IN  [returned |-> ~PostCheckRaises(left.cols, merged.cols),
                           stored   |-> TRUE,
                           result   |-> <<merged>>]

\* perform_merge on the engine's frames o1 = self.df1, o2 = self.df2
MergeOutcome(o1, o2, key1, key2, how) ==
    IF o1 = <<>> \/ o2 = <<>> THEN [returned |-> FALSE, stored |-> FALSE, result |-> <<>>]
    ELSE MergeLoaded(o1[1], o2[1], key1, key2, how)

(***************************************************************************)
(* The files the user can open.  A file is [ext, reads, header, rows]:     *)
(* its extension, whether the reader can read it (a CSV in none of the     *)
(* three encodings, a corrupt workbook cannot), and the table pandas makes *)
(* of it (header labels are distinct, as pandas renames repeated ones).    *)
(***************************************************************************)
Orders ==
    [ext |-> ".csv", reads |-> TRUE,
     header |-> << <<"i","d">>, <<"s","t","a","t","u","s">> >>,
     rows |-> << << <<"A","1">>, <<"o","k">> >>,
                 << <<"A","2">>, <<"o","k">> >>,
                 << <<"A","3">>, <<"n","o">> >> >>]

\* two labels that differ only by a trailing blank, the first ending in _right
Padded ==
    [ext |-> ".csv", reads |-> TRUE,
     header |-> << <<"i","d">>, <<"x","_","r","i","g","h","t">>,
                   <<"x","_","r","i","g","h","t"," ">> >>,
     rows |-> << << <<"A","1">>, <<"p">>, <<"q">> >>,
                 << <<"A","2">>, <<"r">>, <<"s">> >> >>]

Unsupported ==
    [ext |-> ".pdf", reads |-> TRUE,
     header |-> << <<"i","d">> >>,
     rows |-> << << <<"A","1">> >> >>]

\* repeated keys, keys in lower case, a status column as in Orders
Tracking ==
    [ext |-> ".xlsx", reads |-> TRUE,
     header |-> << <<"i","d">>, <<"s","t","a","t","u","s">> >>,
     rows |-> << << <<"a","1">>, <<"x">> >>,
                 << <<"A","3">>, <<"y">> >>,
                 << <<"A","3">>, <<"z">> >> >>]

\* padded label and keys, numeric codes read as floats
Codes ==
    [ext |-> ".txt", reads |-> TRUE,
     header |-> << <<"I","D"," ">>, <<"c","o","d","e">> >>,
     rows |-> << << <<" ","A","1"," ">>, <<"1",".","0">> >>,
                 << <<"A","2">>, <<"2">> >>,
                 << <<"B","7">>, <<"1">> >> >>]

\* a key column named key next to a column named id
Keyed ==
    [ext |-> ".csv", reads |-> TRUE,
     header |-> << <<"k","e","y">>, <<"i","d">> >>,
     rows |-> << << <<"Z","8">>, <<"A","1">> >>,
                 << <<"Z","9">>, <<"A","2">> >> >>]

\* a left table that already has a status_right column
Suffixed ==
    [ext |-> ".csv", reads |-> TRUE,
     header |-> << <<"i","d">>, <<"s","t","a","t","u","s">>,
                   <<"s","t","a","t","u","s","_","r","i","g","h","t">> >>,
     rows |-> << << <<"A","1">>, <<"o","k">>, <<"u">> >>,
                 << <<"A","3">>, <<"n","o">>, <<"v">> >> >>]

\* keys that differ only by case, a column without any value
Mixed ==
    [ext |-> ".csv", reads |-> TRUE,
     header |-> << <<"i","d">>, <<"n","o","t","e">> >>,
     rows |-> << << <<"a","1">>, NaN >>,
                 << <<"A","1">>, NaN >>,
                 << <<"B","2">>, NaN >> >>]

\* two key-like columns, the second listed one the better match for Digits
Pairs ==
    [ext |-> ".csv", reads |-> TRUE,
     header |-> << <<"b">>, <<"a">> >>,
     rows |-> << << <<"1">>, <<"1">> >>,
                 << <<"2">>, <<"2">> >>,
                 << <<" ">>, <<"3">> >> >>]

Digits ==
    [ext |-> ".csv", reads |-> TRUE,
     header |-> << <<"x">> >>,
     rows |-> << << <<"1">> >>, << <<"2">> >>, << <<"3">> >> >>]

\* the keys of Orders in lower case, one of them different
Lowered ==
    [ext |-> ".csv", reads |-> TRUE,
     header |-> << <<"i","d">>, <<"n","a","m","e">> >>,
     rows |-> << << <<"a","1">>, <<"x">> >>,
                 << <<"a","2">>, <<"y">> >>,
                 << <<"b","9">>, <<"z">> >> >>]

\* a header without rows
Blank ==
    [ext |-> ".csv", reads |-> TRUE,
     header |-> << <<"i","d">> >>,
     rows |-> <<>>]

\* a CSV that none of the three encodings decodes
Garbled ==
    [ext |-> ".csv", reads |-> FALSE,
     header |-> << <<"i","d">> >>,
     rows |-> << << <<"A","1">> >> >>]

FileSystem ==
    <<Orders, Unsupported, Padded, Digits, Tracking, Codes, Keyed, Suffixed, Mixed, Pairs,
      Lowered, Blank, Garbled>>

(***************************************************************************)
(* The engine                                                              *)
(***************************************************************************)
VARIABLES
    df1, df2,           \* self.df1, self.df2: <<>> for None, <<frame>> otherwise
    file1_path,         \* self.file1_path: 0 for "", else the file's place
    file2_path,         \* self.file2_path
    merge_result,       \* self.merge_result: <<>> for None, <<frame>> otherwise
    detected_keys,      \* self.detected_keys
    last,               \* the last call of the engine's own caller: [op, args, raised, ret]
    inst,               \* which MergeEngine self.engine is: the number of clear_all so far
    retired,            \* the engines clear_all has replaced, oldest first: <<engine>>
                        \* while a thread is in a call on it, <<>> once it is garbage
    threads,            \* the worker threads started and not finished (a bag)
    pending,            \* the callbacks queued with root.after(0, ...), in order
    selected_key1,      \* self.selected_key1 ("" is <<>>)
    selected_key2,      \* self.selected_key2
    key1_values,        \* self.key1_combo['values']
    key2_values,        \* self.key2_combo['values']
    validate_btn,       \* the state of self.validate_btn
    merge_btn           \* the state of self.merge_btn

\* the fields of self.engine
engine == <<df1, df2, file1_path, file2_path, merge_result, detected_keys>>

\* the front end
gui == <<inst, retired, threads, pending, selected_key1, selected_key2,
         key1_values, key2_values, validate_btn, merge_btn>>

vars == <<df1, df2, file1_path, file2_path, merge_result, detected_keys, last,
          inst, retired, threads, pending, selected_key1, selected_key2,
          key1_values, key2_values, validate_btn, merge_btn>>

\* the number of files of FileSystem the engine's life cycle is explored with
NumFiles == 3

\* a column label no file has
MissingKey == <<"z","z">>

\* min_match_ratio, in thousandths (the default is 0.3)
MatchRatios == {300, 660, 1000}

\* the join types a caller may pass; "cross" is none of the four
Hows == JoinTypes \cup {"cross"}

\* the labels a caller can choose a key from, and one that does not exist
KeyChoices(o) == (IF o = <<>> THEN {} ELSE Range(o[1].cols)) \cup {MissingKey}

Call(op, args, raised, ret) == [op |-> op, args |-> args, raised |-> raised, ret |-> ret]

\* the outcome of a call: the engine after it, whether it raised, what it returned
Outcome(e, raised, ret) == [engine |-> e, raised |-> raised, ret |-> ret]

\* MergeEngine.__init__
NewEngine ==
    [df1 |-> <<>>, df2 |-> <<>>, file1_path |-> 0, file2_path |-> 0,
     merge_result |-> <<>>, detected_keys |-> <<>>]

\* the engine the variables hold
ThisEngine ==
    [df1 |-> df1, df2 |-> df2, file1_path |-> file1_path, file2_path |-> file2_path,
     merge_result |-> merge_result, detected_keys |-> detected_keys]

\* the variables hold engine e
Holds(e) ==
    /\ df1 = e.df1
    /\ df2 = e.df2
    /\ file1_path = e.file1_path
    /\ file2_path = e.file2_path
    /\ merge_result = e.merge_result
    /\ detected_keys = e.detected_keys

\* the variables hold engine e in the next state
Becomes(e) ==
    /\ df1' = e.df1
    /\ df2' = e.df2
    /\ file1_path' = e.file1_path
    /\ file2_path' = e.file2_path
    /\ merge_result' = e.merge_result
    /\ detected_keys' = e.detected_keys

\* load_file storing the path before it reads the file
LoadFilePathFirst(e, path, n) ==
    LET got == LoadedFrame(FileSystem[path])
        e1  == IF n = 1 THEN [e EXCEPT !.file1_path = path] ELSE [e EXCEPT !.file2_path = path]
    IN  IF got = <<>> THEN Outcome(e1, FALSE, FALSE)
        ELSE IF n = 1 THEN Outcome([e1 EXCEPT !.df1 = got], FALSE, TRUE)
        ELSE Outcome([e1 EXCEPT !.df2 = got], FALSE, TRUE)

\* load_file(file_path, file_number) on engine e
LoadFileOn(e, path, n) ==
    LET got == LoadedFrame(FileSystem[path])
    IN  IF got = <<>> THEN Outcome(e, FALSE, FALSE)
        ELSE IF n = 1
        THEN Outcome([e EXCEPT !.df1 = got, !.file1_path = path], FALSE, TRUE)
        ELSE Outcome([e EXCEPT !.df2 = got, !.file2_path = path], FALSE, TRUE)

\* detect_merge_keys(min_match_ratio) on engine e
DetectMergeKeysOn(e, permille) ==
    IF e.df1 = <<>> \/ e.df2 = <<>> THEN Outcome(e, FALSE, <<>>)
    ELSE IF DetectRaises(e.df1[1], e.df2[1]) THEN Outcome(e, TRUE, <<>>)
    ELSE LET keys == FormatKeys(DetectCandidates(e.df1[1], e.df2[1], permille))
         IN  Outcome([e EXCEPT !.detected_keys = keys], FALSE, keys)

\* validate_merge_keys without the three explicit checks, the column lookups
\* outside the try: a missing dataset or column raises
ValidateMergeKeysUnguarded(e, key1, key2) ==
    LET report == ValidateReport(e.df1, e.df2, key1, key2)
    IN  IF ~report.valid /\ report.error # "Error validating keys"
        THEN Outcome(e, TRUE, report)
        ELSE Outcome(e, FALSE, report)

\* validate_merge_keys(key1, key2) on engine e
ValidateMergeKeysOn(e, key1, key2) ==
    Outcome(e, FALSE, ValidateReport(e.df1, e.df2, key1, key2))

\* perform_merge(key1, key2, how) on engine e
PerformMergeOn(e, key1, key2, how) ==
    LET out      == MergeOutcome(e.df1, e.df2, key1, key2, how)
        loaded   == e.df1 # <<>> /\ e.df2 # <<>>
        reached1 == loaded /\ IsSeries(e.df1[1], key1)
        reached2 == reached1 /\ IsSeries(e.df2[1], key2)
    IN  Outcome([e EXCEPT
                   !.df1 = IF reached1 THEN <<StoredAfterNormalize(e.df1[1], key1)>> ELSE @,
                   !.df2 = IF reached2 THEN <<StoredAfterNormalize(e.df2[1], key2)>> ELSE @,
                   !.merge_result = IF out.stored THEN out.result ELSE @],
                FALSE, out.returned)

\* a call on self.engine returns
Returns(op, args, out) ==
    /\ Becomes(out.engine)
    /\ last' = Call(op, args, out.raised, out.ret)

\* MergerGUI.__init__: a new engine, no key selected, both buttons disabled
InitGui ==
    /\ inst = 0
    /\ retired = <<>>
    /\ threads = EmptyBag
    /\ pending = <<>>
    /\ selected_key1 = <<>>
    /\ selected_key2 = <<>>
    /\ key1_values = <<>>
    /\ key2_values = <<>>
    /\ validate_btn = "disabled"
    /\ merge_btn = "disabled"

\* MergeEngine.__init__
Init ==
    /\ Holds(NewEngine)
    /\ last = Call("__init__", <<>>, FALSE, TRUE)
    /\ InitGui

\* load_file(file_path, file_number)
LoadFile(path, n) ==
    /\ Returns("load_file", <<path, n>>, LoadFileOn(ThisEngine, path, n))
    /\ UNCHANGED gui

\* detect_merge_keys(min_match_ratio)
DetectMergeKeys(permille) ==
    /\ Returns("detect_merge_keys", <<permille>>, DetectMergeKeysOn(ThisEngine, permille))
    /\ UNCHANGED gui

\* validate_merge_keys(key1, key2)
ValidateMergeKeys(key1, key2) ==
    /\ Returns("validate_merge_keys", <<key1, key2>>,
               ValidateMergeKeysOn(ThisEngine, key1, key2))
    /\ UNCHANGED gui

\* perform_merge(key1, key2, how)
PerformMerge(key1, key2, how) ==
    /\ Returns("perform_merge", <<key1, key2, how>>,
               PerformMergeOn(ThisEngine, key1, key2, how))
    /\ UNCHANGED gui

\* the places of the files load_file accepts
Loadable == {f \in DOMAIN FileSystem : LoadedFrame(FileSystem[f]) # <<>>}

\* the files the life cycle is explored with: the first NumFiles of FileSystem
\* and every file load_file rejects
Files == (1..NumFiles) \cup (DOMAIN FileSystem \ Loadable)

\* the life cycle of one engine, from its construction
Next ==
    \/ \E path \in Files, n \in {1, 2} : LoadFile(path, n)
    \/ \E permille \in MatchRatios : DetectMergeKeys(permille)
    \/ \E key1 \in KeyChoices(df1), key2 \in KeyChoices(df2) : ValidateMergeKeys(key1, key2)
    \/ \E key1 \in KeyChoices(df1), key2 \in KeyChoices(df2), how \in Hows :
          PerformMerge(key1, key2, how)

Spec == Init /\ [][Next]_vars

\* an engine after load_file calls on any files (0: the slot was never loaded)
InitLoaded ==
    /\ file1_path \in {0} \cup Loadable
    /\ file2_path \in {0} \cup Loadable
    /\ df1 = IF file1_path = 0 THEN <<>> ELSE LoadedFrame(FileSystem[file1_path])
    /\ df2 = IF file2_path = 0 THEN <<>> ELSE LoadedFrame(FileSystem[file2_path])
    /\ merge_result = <<>>
    /\ detected_keys = <<>>
    /\ last = Call("load_file", <<>>, FALSE, TRUE)
    /\ InitGui

\* one call on the loaded engine
NextCall ==
    /\ last.op = "load_file"
    /\ \/ \E permille \in MatchRatios : DetectMergeKeys(permille)
       \/ \E key1 \in KeyChoices(df1), key2 \in KeyChoices(df2) : ValidateMergeKeys(key1, key2)
       \/ \E key1 \in KeyChoices(df1), key2 \in KeyChoices(df2), how \in Hows :
             PerformMerge(key1, key2, how)

\* every call on every pair of loaded files
CallSpec == InitLoaded /\ [][NextCall]_vars

(***************************************************************************)
(* The front end (class MergerGUI).  tkinter runs every handler and every  *)
(* root.after callback to its end on the main thread, one at a time; a     *)
(* worker thread runs one engine call and queues its callback.  The        *)
(* widgets that only display (status bar, progress bar, preview, labels)   *)
(* are left out, and so is output_path: a handler that only warns and      *)
(* returns (no key selected, no output path) changes nothing.              *)
(***************************************************************************)
\* the most worker threads and queued callbacks at a time when the user clicks
MaxInFlight == 2

\* the most Clear All clicks
MaxClears == 1

\* the number of files of FileSystem the user browses to
NumGuiFiles == 2

\* threading.Thread(target=...) before it runs; a thread is on engine `on`
\* once it runs
Thread(op, path, slot) ==
    [op |-> op, path |-> path, slot |-> slot, key1 |-> <<>>, key2 |-> <<>>,
     pc |-> "created", on |-> 0]

\* root.after(0, lambda: cb(...))
Callback(cb, slot, ok, keys) == [cb |-> cb, slot |-> slot, ok |-> ok, keys |-> keys]

Started(t) == threads (+) SetToBag({t})

Finished(t) == threads (-) SetToBag({t})

InFlight == BagCardinality(threads) + Len(pending)

\* the engine a running thread has called
EngineOf(k) == IF k = inst THEN ThisEngine ELSE retired[k + 1][1]

\* whether a thread other than t is in a call on engine k
StillCalled(k, t) ==
    \/ CopiesIn(t, threads) > 1
    \/ \E u \in BagToSet(threads) : u # t /\ u.pc = "running" /\ u.on = k

\* update_gui_state: both buttons follow the two selected keys
ButtonState(k1, k2) == IF k1 # <<>> /\ k2 # <<>> THEN "normal" ELSE "disabled"

UpdateGuiState(k1, k2) ==
    /\ validate_btn' = ButtonState(k1, k2)
    /\ merge_btn' = ButtonState(k1, k2)

\* update_key_options, for one combobox
KeyOptions(o, values) == IF o # <<>> THEN o[1].cols ELSE values

\* Browse: select_file(file_number) with a file chosen, then load_file
SelectFile(n, path) ==
    /\ InFlight < MaxInFlight
    /\ threads' = Started(Thread("load_file", path, n))
    /\ UNCHANGED <<engine, last, inst, retired, pending, selected_key1, selected_key2,
                   key1_values, key2_values, validate_btn, merge_btn>>

\* a worker thread starts its call: self.engine and the arguments are read
ThreadRuns(t) ==
    /\ BagIn(t, threads)
    /\ t.pc = "created"
    /\ LET keyed == t.op \in {"validate_merge_keys", "perform_merge"}
       IN  threads' = Finished(t) (+)
              SetToBag({[t EXCEPT !.pc = "running", !.on = inst,
                                  !.key1 = IF keyed THEN selected_key1 ELSE @,
                                  !.key2 = IF keyed THEN selected_key2 ELSE @]})
    /\ UNCHANGED <<engine, last, inst, retired, pending, selected_key1, selected_key2,
                   key1_values, key2_values, validate_btn, merge_btn>>

\* the call of a running thread on engine e
ThreadCall(t, e) ==
    IF t.op = "load_file" THEN LoadFileOn(e, t.path, t.slot)
    ELSE IF t.op = "detect_merge_keys" THEN DetectMergeKeysOn(e, 300)
    ELSE IF t.op = "validate_merge_keys" THEN ValidateMergeKeysOn(e, t.key1, t.key2)
    ELSE PerformMergeOn(e, t.key1, t.key2, "left")

\* the callback a thread queues when its call has returned `out`; saved is
\* what save_result returned
ThreadCallback(t, out, saved) ==
    IF t.op = "load_file" THEN Callback("on_file_loaded", t.slot, out.ret, <<>>)
    ELSE IF t.op = "detect_merge_keys" THEN Callback("on_keys_detected", 0, TRUE, out.ret)
    ELSE IF t.op = "validate_merge_keys"
         THEN Callback("show_validation_result", 0, out.ret.valid, <<>>)
    ELSE Callback("on_merge_completed", 0, out.ret /\ saved, <<>>)

\* the call of a running thread returns and the thread queues its callback;
\* a call that raises ends the thread without a callback
ThreadReturns(t, saved) ==
    /\ BagIn(t, threads)
    /\ t.pc = "running"
    /\ LET out == ThreadCall(t, EngineOf(t.on))
       IN  /\ (t.op = "perform_merge" /\ out.ret) \/ saved
           /\ IF t.on = inst
              THEN Becomes(out.engine) /\ UNCHANGED retired
              ELSE /\ retired' = [retired EXCEPT ![t.on + 1] =
                                    IF StillCalled(t.on, t) THEN <<out.engine>> ELSE <<>>]
                   /\ UNCHANGED engine
           /\ pending' = IF out.raised THEN pending
                         ELSE Append(pending, ThreadCallback(t, out, saved))
    /\ threads' = Finished(t)
    /\ UNCHANGED <<last, inst, selected_key1, selected_key2, key1_values, key2_values,
                   validate_btn, merge_btn>>

\* on_file_loaded(file_number, success)
OnFileLoaded ==
    /\ pending # <<>>
    /\ Head(pending).cb = "on_file_loaded"
    /\ pending' = Tail(pending)
    /\ IF Head(pending).ok
       THEN /\ key1_values' = KeyOptions(df1, key1_values)
            /\ key2_values' = KeyOptions(df2, key2_values)
            /\ threads' = IF df1 # <<>> /\ df2 # <<>>
                          THEN Started(Thread("detect_merge_keys", 0, 0))
                          ELSE threads
       ELSE UNCHANGED <<key1_values, key2_values, threads>>
    /\ UpdateGuiState(selected_key1, selected_key2)
    /\ UNCHANGED <<engine, last, inst, retired, selected_key1, selected_key2>>

\* on_keys_detected(detected_keys)
OnKeysDetected ==
    /\ pending # <<>>
    /\ Head(pending).cb = "on_keys_detected"
    /\ pending' = Tail(pending)
    /\ LET detected == Head(pending).keys
       IN  IF detected # <<>>
           THEN /\ key1_values' = KeyOptions(df1, key1_values)
                /\ key2_values' = KeyOptions(df2, key2_values)
                /\ selected_key1' = detected[1][1]
                /\ selected_key2' = detected[1][2]
                /\ UpdateGuiState(detected[1][1], detected[1][2])
           ELSE /\ UpdateGuiState(selected_key1, selected_key2)
                /\ UNCHANGED <<key1_values, key2_values, selected_key1, selected_key2>>
    /\ UNCHANGED <<engine, last, inst, retired, threads>>

\* show_validation_result(result): a message box
ShowValidationResult ==
    /\ pending # <<>>
    /\ Head(pending).cb = "show_validation_result"
    /\ pending' = Tail(pending)
    /\ UNCHANGED <<engine, last, inst, retired, threads, selected_key1, selected_key2,
                   key1_values, key2_values, validate_btn, merge_btn>>

\* on_merge_completed(success)
OnMergeCompleted ==
    /\ pending # <<>>
    /\ Head(pending).cb = "on_merge_completed"
    /\ pending' = Tail(pending)
    /\ merge_btn' = "normal"
    /\ UNCHANGED <<engine, last, inst, retired, threads, selected_key1, selected_key2,
                   key1_values, key2_values, validate_btn>>

\* the user picks a label in a key combobox
SelectKey(n, label) ==
    /\ label \in Range(IF n = 1 THEN key1_values ELSE key2_values)
    /\ selected_key1' = IF n = 1 THEN label ELSE selected_key1
    /\ selected_key2' = IF n = 1 THEN selected_key2 ELSE label
    /\ UNCHANGED <<engine, last, inst, retired, threads, pending, key1_values,
                   key2_values, validate_btn, merge_btn>>

\* Validate Keys: validate_keys
ValidateKeys ==
    /\ validate_btn = "normal"
    /\ InFlight < MaxInFlight
    /\ selected_key1 # <<>> /\ selected_key2 # <<>>
    /\ threads' = Started(Thread("validate_merge_keys", 0, 0))
    /\ UNCHANGED <<engine, last, inst, retired, pending, selected_key1, selected_key2,
                   key1_values, key2_values, validate_btn, merge_btn>>

\* Execute Merge: execute_merge, with an output path given
ExecuteMerge ==
    /\ merge_btn = "normal"
    /\ InFlight < MaxInFlight
    /\ selected_key1 # <<>> /\ selected_key2 # <<>>
    /\ merge_btn' = "disabled"
    /\ threads' = Started(Thread("perform_merge", 0, 0))
    /\ UNCHANGED <<engine, last, inst, retired, pending, selected_key1, selected_key2,
                   key1_values, key2_values, validate_btn>>

\* Clear All: clear_all
ClearAll ==
    /\ inst < MaxClears
    /\ selected_key1' = <<>>
    /\ selected_key2' = <<>>
    /\ retired' = Append(retired, IF \E u \in BagToSet(threads) : u.pc = "running" /\ u.on = inst
                                   THEN <<ThisEngine>> ELSE <<>>)
    /\ inst' = inst + 1
    /\ Becomes(NewEngine)
    /\ key1_values' = <<>>
    /\ key2_values' = <<>>
    /\ UpdateGuiState(<<>>, <<>>)
    /\ UNCHANGED <<last, threads, pending>>

\* the user's events, the worker threads and the main loop's callbacks
GuiNext ==
    \/ \E n \in {1, 2}, path \in 1..NumGuiFiles : SelectFile(n, path)
    \/ \E t \in BagToSet(threads) : ThreadRuns(t)
    \/ \E t \in BagToSet(threads), saved \in BOOLEAN : ThreadReturns(t, saved)
    \/ OnFileLoaded
    \/ OnKeysDetected
    \/ ShowValidationResult
    \/ OnMergeCompleted
    \/ \E n \in {1, 2}, label \in Range(key1_values) \cup Range(key2_values) :
          SelectKey(n, label)
    \/ ValidateKeys
    \/ ExecuteMerge
    \/ ClearAll

GuiSpec == Init /\ [][GuiNext]_vars

(***************************************************************************)
(* The two normalizations on their own: the chain detect_merge_keys        *)
(* applies to every cell (astype(str), strip, replace, upper) and          *)
(* normalize_tracking_code, each applied to a text and then to its own     *)
(* result.  last.args holds the successive arguments, last.ret the result. *)
(***************************************************************************)
\* the longest text normalized
MaxLen == 4

\* blank, the two characters of '.0', a letter in both cases
TextChars == {" ", ".", "0", "a", "A"}

\* the values of a cell: the texts over TextChars and the missing value
CellValues == UNION {[1..k -> TextChars] : k \in 0..MaxLen} \cup {NaN}

\* normalize_tracking_code(value)
NormalizeTrackingCode(value) ==
    IF value = NaN \/ value = <<>> THEN <<>> ELSE Upper(Strip(value))

\* the normalization named f applied to v
Normalized(f, v) == IF f = "normalize" THEN DetectToken(v) ELSE NormalizeTrackingCode(v)

\* a cell value, before any normalization
InitValue ==
    /\ Holds(NewEngine)
    /\ InitGui
    /\ last \in {Call("value", <<>>, FALSE, v) : v \in CellValues}

\* normalization f is applied to the value, or once more to its own result
Normalize(f) ==
    /\ last.op \in {"value", f}
    /\ Len(last.args) < 2
    /\ last' = Call(f, Append(last.args, last.ret), FALSE, Normalized(f, last.ret))
    /\ UNCHANGED <<engine, gui>>

NextValue ==
    \/ Normalize("normalize")
    \/ Normalize("normalize_tracking_code")

NormSpec == InitValue /\ [][NextValue]_vars

(***************************************************************************)
(* Properties                                                              *)
(***************************************************************************)
IsCall(op) == last.op = op /\ ~last.raised

BothLoaded == df1 # <<>> /\ df2 # <<>>

\* a perform_merge call that returned True
MergeSucceeded == IsCall("perform_merge") /\ last.ret = TRUE

\* C1: a perform_merge call that returns False leaves self.merge_result as it
\* was before the call.
C1_FailedMergeKeepsResult ==
    [][(last'.op = "perform_merge" /\ last'.ret = FALSE) => merge_result' = merge_result]_vars

\* C2: perform_merge, successful or not, leaves self.df1 and self.df2 as they
\* were (same labels, same rows, key cells not normalized).
C2_MergeKeepsInputs ==
    [][last'.op = "perform_merge" => (df1' = df1 /\ df2' = df2)]_vars

\* C2 witness: a merge succeeded on a left key column that the normalization
\* rewrites.
C2_Witness ==
    /\ MergeSucceeded
    /\ NormalizeKey(df1[1], last.args[1]) # df1[1]

\* C9: the labels of each frame the engine holds (df1, df2, merge_result) are
\* pairwise distinct.
C9_DistinctColumnNames ==
    \A o \in {df1, df2, merge_result} : o # <<>> => NoDuplicates(o[1].cols)

\* the tokens two columns share: matchCount of a pair
MatchCount(col1, col2) == Cardinality(TokenSet(df1[1], col1) \cap TokenSet(df2[1], col2))

\* 0.3 * nameSimilarity + 0.7 * valueOverlap of a pair, from the frames
ScoreOf(col1, col2) ==
    CombinedScore(FuzzRatio(Lower(col1), Lower(col2)), MatchCount(col1, col2),
                  Min(Cardinality(TokenSet(df1[1], col1)), Cardinality(TokenSet(df2[1], col2))))

\* C4: detect_merge_keys returns no pair whose combined score (0.3 * name
\* similarity + 0.7 * value overlap) is below min_match_ratio, and the pairs
\* come sorted non-increasing by (combined score, match count).
C4_DetectFilteredAndSorted ==
    (IsCall("detect_merge_keys") /\ BothLoaded) =>
        LET keys == last.ret
        IN  /\ \A i \in DOMAIN keys :
                  /\ RatioEQ(keys[i][3], ScoreOf(keys[i][1], keys[i][2]))
                  /\ RatioGE(keys[i][3], <<last.args[1], 1000>>)
            /\ \A i, j \in DOMAIN keys :
                  i < j =>
                     \/ RatioLT(keys[j][3], keys[i][3])
                     \/ /\ RatioEQ(keys[i][3], keys[j][3])
                        /\ MatchCount(keys[i][1], keys[i][2]) >= MatchCount(keys[j][1], keys[j][2])

\* C4 witness: two returned pairs with equal scores, the one with more matches
\* first although its column comes later in the file.
C4_Witness ==
    /\ IsCall("detect_merge_keys") /\ BothLoaded
    /\ Len(last.ret) >= 2
    /\ RatioEQ(last.ret[1][3], last.ret[2][3])
    /\ MatchCount(last.ret[1][1], last.ret[1][2]) > MatchCount(last.ret[2][1], last.ret[2][2])
    /\ \E a, b \in DOMAIN df1[1].cols :
          a < b /\ df1[1].cols[b] = last.ret[1][1] /\ df1[1].cols[a] = last.ret[2][1]

\* the uniqueness ratio of the claim: distinct normalized non-absent tokens
\* over the row count, above 0.7
NormalizedUnique(df, col) == 10 * Cardinality(TokenSet(df, col)) > 7 * Len(df.rows)

\* the uniqueness ratio of the code: distinct non-missing cell values as
\* stored over the row count, above 0.7
RawUnique(df, col) == 10 * Cardinality(Range(Column(df, col)) \ {NaN}) > 7 * Len(df.rows)

TrimmedValues(df, col) ==
    {Strip(AsStr(v)) : v \in Range(Column(df, col))} \ {<<>>, <<"n","a","n">>}

\* no two distinct trimmed values are equal up to case
NoCaseVariants(df, col) ==
    \A a, b \in TrimmedValues(df, col) : Upper(a) = Upper(b) => a = b

\* validate_merge_keys was called with the same file in both slots and the
\* same existing column as both keys
SelfMerge ==
    /\ IsCall("validate_merge_keys") /\ BothLoaded
    /\ df1 = df2
    /\ last.args[1] = last.args[2]
    /\ HasCol(df1[1], last.args[1])

\* C6 as claimed: on a self-merge validate_merge_keys returns a valid report
\* with both match ratios 1.0 and common_values = file1_unique = file2_unique
\* (stated here for the datasets whose labels are pairwise distinct, where it
\* already fails).
C6_SelfMergeAlwaysFull ==
    (SelfMerge /\ NoDuplicates(df1[1].cols)) =>
        /\ last.ret.valid
        /\ RatioEQ(last.ret.match_ratio_file1, <<1, 1>>)
        /\ RatioEQ(last.ret.match_ratio_file2, <<1, 1>>)
        /\ last.ret.common_values = last.ret.file1_unique
        /\ last.ret.file1_unique = last.ret.file2_unique

\* C6 as amended: on a self-merge the report is valid exactly when the column
\* label is not repeated in the dataset; a valid report has equal figures on
\* both sides, and both match ratios are 1.0 with common_values =
\* file1_unique = file2_unique when the column has a value other than '' and
\* 'nan' and no two of its distinct trimmed values are equal up to case.
C6_SelfMergeFullWhenCaseConsistent ==
    SelfMerge =>
        LET r   == last.ret
            key == last.args[1]
        IN  /\ r.valid <=> IsSeries(df1[1], key)
            /\ r.valid =>
                  /\ r.file1_unique = r.file2_unique
                  /\ r.file1_total = r.file2_total
                  /\ RatioEQ(r.match_ratio_file1, r.match_ratio_file2)
                  /\ (TrimmedValues(df1[1], key) # {} /\ NoCaseVariants(df1[1], key)) =>
                        /\ RatioEQ(r.match_ratio_file1, <<1, 1>>)
                        /\ RatioEQ(r.match_ratio_file2, <<1, 1>>)
                        /\ r.common_values = r.file1_unique
                        /\ r.file1_unique = r.file2_unique

\* C6 witness: a valid self-merge report on a case-consistent column that
\* holds a value twice.
C6_Witness ==
    /\ SelfMerge
    /\ last.ret.valid
    /\ TrimmedValues(df1[1], last.args[1]) # {}
    /\ NoCaseVariants(df1[1], last.args[1])
    /\ last.ret.file1_unique < last.ret.file1_total
    /\ RatioEQ(last.ret.match_ratio_file1, <<1, 1>>)

\* the key cells of a column as the merge compares them
NormalizedKeys(df, key) == [i \in DOMAIN df.rows |-> MergeToken(Column(df, key)[i])]

\* the right rows whose normalized key equals that of left row i
RightMatches(i) ==
    {j \in DOMAIN df2[1].rows :
        NormalizedKeys(df2[1], last.args[2])[j] = NormalizedKeys(df1[1], last.args[1])[i]}

\* a successful left join on a left key column without repeated values
LeftJoinOnUniqueKey ==
    /\ MergeSucceeded
    /\ last.args[3] = "left"
    /\ NoDuplicates(Column(df1[1], last.args[1]))

\* C7 as claimed: a successful left join on a unique left key has exactly as
\* many rows as df1, however many right rows match a left key.
C7_LeftJoinKeepsRowCount ==
    LeftJoinOnUniqueKey => Len(merge_result[1].rows) = Len(df1[1].rows)

\* C7 as amended: the result has exactly as many rows as df1 when no left key
\* matches more than one right row after normalization (zero or one match),
\* and never fewer rows than df1.
C7_LeftJoinRowCountSingleMatch ==
    LeftJoinOnUniqueKey =>
        /\ Len(merge_result[1].rows) >= Len(df1[1].rows)
        /\ (\A i \in DOMAIN df1[1].rows : Cardinality(RightMatches(i)) <= 1)
              => Len(merge_result[1].rows) = Len(df1[1].rows)

\* C7 witness: such a join where the normalization rewrites a left key, one
\* left row has a match and another has none.
C7_Witness ==
    /\ LeftJoinOnUniqueKey
    /\ \A i \in DOMAIN df1[1].rows : Cardinality(RightMatches(i)) <= 1
    /\ \E i \in DOMAIN df1[1].rows : RightMatches(i) = {}
    /\ \E i \in DOMAIN df1[1].rows : RightMatches(i) # {}
    /\ NormalizedKeys(df1[1], last.args[1]) # Column(df1[1], last.args[1])

\* the labels of df2 other than the right key, in column order
RightNonKey == SelectSeq(df2[1].cols, LAMBDA c : c # last.args[2])

\* the name the claim gives a right column in the result
ClaimedName(c) == IF c \in Range(df1[1].cols) THEN c \o RightSuffix ELSE c

\* the name a right column has in the result: the suffix is appended a second
\* time when the left dataset also has a column <name>_right
ResultName(c) ==
    IF c \notin Range(df1[1].cols) THEN c
    ELSE IF (c \o RightSuffix) \in Range(df1[1].cols) THEN c \o RightSuffix \o RightSuffix
    ELSE c \o RightSuffix

\* the left part and the right part of a row of merge_result
LeftPart(row) == SubSeq(row, 1, Len(df1[1].cols))
RightPart(row) == SubSeq(row, Len(df1[1].cols) + 1, Len(row))

\* the cells of right row j outside the key column
RightCells(j) ==
    LET pos == SelectSeq([n \in DOMAIN df2[1].cols |-> n],
                         LAMBDA n : df2[1].cols[n] # last.args[2])
    IN  [n \in DOMAIN pos |-> df2[1].rows[j][pos[n]]]

\* every row of the side a join type keeps is found in merge_result, the left
\* rows with their key normalized, the right rows without their key
NoDataLost ==
    /\ last.args[3] \in {"left", "outer"} =>
          \A i \in DOMAIN df1[1].rows :
             \E n \in DOMAIN merge_result[1].rows :
                LeftPart(merge_result[1].rows[n]) = NormalizeKey(df1[1], last.args[1]).rows[i]
    /\ last.args[3] \in {"right", "outer"} =>
          \A j \in DOMAIN df2[1].rows :
             \E n \in DOMAIN merge_result[1].rows :
                RightPart(merge_result[1].rows[n]) = RightCells(j)

\* C8 as claimed: after a successful perform_merge the columns of merge_result
\* are the left columns under their names, then every right column but the
\* right key, named <name>_right when a left column has the same name and
\* under its own name otherwise.
C8_ColumnsSuffixedOnce ==
    MergeSucceeded =>
        merge_result[1].cols =
            df1[1].cols \o [n \in DOMAIN RightNonKey |-> ClaimedName(RightNonKey[n])]

\* C8 as amended: the same, except that a colliding right column is named
\* <name>_right_right when the left dataset also has a column <name>_right;
\* and no row of a side the join type keeps is lost.
C8_ColumnsSuffixed ==
    MergeSucceeded =>
        /\ merge_result[1].cols =
              df1[1].cols \o [n \in DOMAIN RightNonKey |-> ResultName(RightNonKey[n])]
        /\ NoDataLost

\* C8 witness: both files have a non-key column status, and the result of
\* the outer join holds status with a left value and status_right with a
\* right value in one row.
C8_Witness ==
    LET status == <<"s","t","a","t","u","s">>
    IN  /\ MergeSucceeded
        /\ last.args[3] = "outer"
        /\ status \in Range(df1[1].cols) \cap Range(RightNonKey)
        /\ status # last.args[1]
        /\ \E a, b \in DOMAIN merge_result[1].cols :
              /\ merge_result[1].cols[a] = status
              /\ merge_result[1].cols[b] = status \o RightSuffix
              /\ \E n \in DOMAIN merge_result[1].rows :
                    /\ merge_result[1].rows[n][a] # NaN
                    /\ merge_result[1].rows[n][b] # NaN

\* an inner join was asked for on two existing key columns whose normalized
\* values are disjoint, in datasets whose labels are pairwise distinct
DisjointInnerJoin ==
    /\ IsCall("perform_merge") /\ BothLoaded
    /\ last.args[3] = "inner"
    /\ NoDuplicates(df1[1].cols) /\ NoDuplicates(df2[1].cols)
    /\ HasCol(df1[1], last.args[1]) /\ HasCol(df2[1], last.args[2])
    /\ Range(NormalizedKeys(df1[1], last.args[1]))
          \cap Range(NormalizedKeys(df2[1], last.args[2])) = {}

\* C10: an inner join on disjoint key sets succeeds and stores a result
\* without rows whose columns are the left columns and the right columns
\* other than the key, collisions suffixed (stated for the datasets whose
\* labels are pairwise distinct, and with the result names of C8 as amended).
C10_DisjointInnerJoinIsEmpty ==
    DisjointInnerJoin =>
        /\ last.ret = TRUE
        /\ merge_result # <<>>
        /\ merge_result[1].rows = <<>>
        /\ merge_result[1].cols =
              df1[1].cols \o [n \in DOMAIN RightNonKey |-> ResultName(RightNonKey[n])]
\* C3: no engine has two calls in flight: a worker thread that is in a call
\* on an engine is the only thread in a call on that engine.
C3_OneOperationInFlight ==
    \A t \in BagToSet(threads) : t.pc = "running" => ~StillCalled(t.on, t)

\* the text holds the substring '.0'
HasDotZero(s) == \E i \in 1..(Len(s) - 1) : s[i] = "." /\ s[i + 1] = "0"

\* a normalization was applied to a value and then to its own result
AppliedTwice(f) == last.op = f /\ Len(last.args) = 2

\* C11 as claimed: the key normalization (text, trim, remove every '.0',
\* upper case) is idempotent: applied to its own result it returns that
\* result, for every input.
C11_NormalizeIdempotent ==
    AppliedTwice("normalize") => last.ret = last.args[2]

\* C11 as amended: the key normalization applied to its own result returns
\* that result exactly when the result holds no '.0' and neither starts nor
\* ends with whitespace, which is so for every input without a '.0';
\* normalize_tracking_code (trim, upper case) is idempotent for every input.
C11_IdempotentOnCleanTokens ==
    /\ AppliedTwice("normalize") =>
          LET x     == last.args[1]
              token == last.args[2]
          IN  /\ last.ret = token <=> (~HasDotZero(token) /\ Strip(token) = token)
              /\ ~HasDotZero(x) => last.ret = token
    /\ AppliedTwice("normalize_tracking_code") => last.ret = last.args[2]

\* C11 witness: a text with a leading blank, a lower-case letter and a '.0'
\* was normalized twice, the second time without effect.
C11_Witness ==
    /\ AppliedTwice("normalize")
    /\ last.args[1] = <<" ", "a", ".", "0">>
    /\ last.args[2] = <<"A">>
    /\ last.ret = <<"A">>

\* validate_merge_keys(key1, key2) is called without both datasets loaded, or
\* with a key that is not a column of its dataset
PreconditionFails(key1, key2) ==
    IF df1 = <<>> \/ df2 = <<>> THEN TRUE
    ELSE ~HasCol(df1[1], key1) \/ ~HasCol(df2[1], key2)

\* C12: validate_merge_keys called without both datasets loaded, or with key1
\* not a column of df1, or key2 not a column of df2, does not raise, returns
\* valid = False with a reason, and leaves df1, df2, merge_result and
\* detected_keys (and the paths) as they were.
C12_ValidateFailsCleanly ==
    [][(last'.op = "validate_merge_keys" /\ PreconditionFails(last'.args[1], last'.args[2]))
          => /\ ~last'.raised
             /\ last'.ret.valid = FALSE
             /\ last'.ret.error # ""
             /\ UNCHANGED engine]_vars

\* C12 witness: with both datasets loaded, keys detected and a merge result
\* stored, validate_merge_keys was called with a key2 that df2 does not have.
C12_Witness ==
    /\ IsCall("validate_merge_keys") /\ BothLoaded
    /\ HasCol(df1[1], last.args[1]) /\ ~HasCol(df2[1], last.args[2])
    /\ last.ret = FailedReport("Column not found in second file")
    /\ merge_result # <<>>
    /\ detected_keys # <<>>

LowUniquenessWarning == "Both columns have low uniqueness - may not be good merge keys"

LowOverlapWarning == "Low overlap between files - check if columns are compatible"

\* both uniqueness ratios of a report are below 0.7
BothLowUniqueness(r) ==
    RatioLT(r.file1_uniqueness, <<7, 10>>) /\ RatioLT(r.file2_uniqueness, <<7, 10>>)

\* both match ratios of a report are below 0.3
BothLowOverlap(r) ==
    RatioLT(r.match_ratio_file1, <<3, 10>>) /\ RatioLT(r.match_ratio_file2, <<3, 10>>)

\* validate_merge_keys returned a valid report
ValidReport == IsCall("validate_merge_keys") /\ last.ret.valid

\* C13: a valid report warns of low uniqueness exactly when both uniqueness
\* ratios are below 0.7, of low overlap exactly when that is not so and both
\* match ratios are below 0.3, and holds at most one warning.
C13_WarningsExclusive ==
    ValidReport =>
        LET r == last.ret
        IN  /\ LowUniquenessWarning \in Range(r.warnings) <=> BothLowUniqueness(r)
            /\ LowOverlapWarning \in Range(r.warnings)
                  <=> (~BothLowUniqueness(r) /\ BothLowOverlap(r))
            /\ Len(r.warnings) <= 1

\* C13 witness: a valid report with low uniqueness and low overlap on both
\* sides that holds the low-uniqueness warning alone.
C13_Witness ==
    /\ ValidReport
    /\ BothLowUniqueness(last.ret) /\ BothLowOverlap(last.ret)
    /\ last.ret.file1_total > 0
    /\ last.ret.warnings = <<LowUniquenessWarning>>

\* C14: a load_file call that returns False leaves df1, df2, both paths,
\* merge_result and detected_keys as they were; one that returns True into
\* slot n sets slot n's path to the file and changes nothing but slot n's
\* dataset and path.
C14_LoadFileSlotOnly ==
    [][last'.op = "load_file" =>
          IF last'.ret = FALSE THEN UNCHANGED engine
          ELSE /\ UNCHANGED <<merge_result, detected_keys>>
               /\ last'.args[2] = 1 =>
                     (file1_path' = last'.args[1] /\ df1' # <<>> /\ UNCHANGED <<df2, file2_path>>)
               /\ last'.args[2] = 2 =>
                     (file2_path' = last'.args[1] /\ df2' # <<>> /\ UNCHANGED <<df1, file1_path>>)
      ]_vars

\* C14 witness: with both datasets loaded, keys detected and a merge result
\* stored, load_file was called on a file without rows and returned False.
C14_Witness ==
    /\ IsCall("load_file") /\ last.ret = FALSE
    /\ FileSystem[last.args[1]].ext = ".csv"
    /\ FileSystem[last.args[1]].rows = <<>>
    /\ BothLoaded
    /\ merge_result # <<>>
    /\ detected_keys # <<>>

\* C15: after every detect_merge_keys call, before or after the datasets are
\* loaded, candidates found or not, self.detected_keys is the sequence the
\* call returned (a call that raises returns nothing, <<>>): no result of an
\* earlier call is left behind.
C15_DetectedKeysCurrent ==
    last.op = "detect_merge_keys" => detected_keys = last.ret

\* the normalized key values of the left and of the right dataset
LeftKeys == Range(NormalizedKeys(df1[1], last.args[1]))
RightKeys == Range(NormalizedKeys(df2[1], last.args[2]))

\* the key cells of merge_result, in row order
ResultKeys == Column(merge_result[1], last.args[1])

\* C16: after a successful perform_merge the key values in merge_result are
\* those of the left dataset for 'left', of the right dataset for 'right',
\* the common ones for 'inner' and all of them for 'outer' (key values as the
\* merge normalizes them); a row whose key the right dataset lacks holds
\* nulls in the right columns, one whose key the left dataset lacks holds
\* nulls in the left columns other than the key.
C16_KeysByJoinType ==
    MergeSucceeded =>
        LET how == last.args[3]
            K   == Range(ResultKeys)
        IN  /\ how = "left" => K = LeftKeys
            /\ how = "right" => K = RightKeys
            /\ how = "inner" => K = LeftKeys \cap RightKeys
            /\ how = "outer" => K = LeftKeys \cup RightKeys
            /\ \A n \in DOMAIN merge_result[1].rows :
                  LET row == merge_result[1].rows[n]
                  IN  /\ ResultKeys[n] \notin RightKeys =>
                            \A c \in DOMAIN RightPart(row) : RightPart(row)[c] = NaN
                      /\ ResultKeys[n] \notin LeftKeys =>
                            \A c \in DOMAIN df1[1].cols :
                               df1[1].cols[c] # last.args[1] => row[c] = NaN

\* C16 witness: an outer join succeeded on keys the normalization rewrites,
\* with a key on the left only, a key on the right only and a common key.
C16_Witness ==
    /\ MergeSucceeded
    /\ last.args[3] = "outer"
    /\ LeftKeys \ RightKeys # {}
    /\ RightKeys \ LeftKeys # {}
    /\ LeftKeys \cap RightKeys # {}
    /\ NormalizedKeys(df1[1], last.args[1]) # Column(df1[1], last.args[1])
    /\ Len(RightNonKey) > 0

\* detect_merge_keys, with its default ratio, returns the pair (col1, col2)
\* for the loaded datasets, found with at least one common token
DetectedWithMatches(col1, col2) ==
    /\ ~DetectRaises(df1[1], df2[1])
    /\ \E c \in Range(DetectCandidates(df1[1], df2[1], 300)) :
          c.col1 = col1 /\ c.col2 = col2 /\ c.matches > 0

\* left row i and right row j hold values detect_merge_keys counts as a match
CountedAsMatch(i, j) ==
    LET token == DetectToken(Column(df1[1], last.args[1])[i])
    IN  /\ token = DetectToken(Column(df2[1], last.args[2])[j])
        /\ token \notin AbsentTokens

\* left row i and right row j are joined into a row of merge_result
JoinedInResult(i, j) ==
    \E n \in DOMAIN merge_result[1].rows :
        /\ LeftPart(merge_result[1].rows[n]) = NormalizeKey(df1[1], last.args[1]).rows[i]
        /\ RightPart(merge_result[1].rows[n]) = RightCells(j)

\* C17: perform_merge(col1, col2, 'inner') on a pair detect_merge_keys
\* returns with matchCount > 0 succeeds, joins every left and right value
\* that detection counts as a match into a common row, and so stores a
\* result with at least one row.
C17_DetectedMatchesAreJoined ==
    (/\ IsCall("perform_merge") /\ BothLoaded
     /\ last.args[3] = "inner"
     /\ HasCol(df1[1], last.args[1]) /\ HasCol(df2[1], last.args[2])
     /\ DetectedWithMatches(last.args[1], last.args[2]))
    => /\ last.ret = TRUE
       /\ merge_result[1].rows # <<>>
       /\ \A i \in DOMAIN df1[1].rows, j \in DOMAIN df2[1].rows :
             CountedAsMatch(i, j) => JoinedInResult(i, j)

\* the merges started by execute_merge whose on_merge_completed has not run
MergesInFlight ==
    BagCardinality([t \in {u \in DOMAIN threads : u.op = "perform_merge"} |-> threads[t]])
    + Cardinality({i \in DOMAIN pending : pending[i].cb = "on_merge_completed"})

\* C18: while a merge started by execute_merge has not reached
\* on_merge_completed, the Execute Merge button is disabled, whatever other
\* events and callbacks run in between, and no second merge is in flight.
C18_MergeButtonDisabledDuringMerge ==
    MergesInFlight > 0 => (merge_btn = "disabled" /\ MergesInFlight = 1)

\* C19: the Validate Keys and Execute Merge buttons are enabled only while
\* both datasets are loaded in the current engine and the selected keys are
\* columns of them.
C19_ButtonsNeedLoadedKeys ==
    (validate_btn = "normal" \/ merge_btn = "normal") =>
        /\ BothLoaded
        /\ HasCol(df1[1], selected_key1)
        /\ HasCol(df2[1], selected_key2)

\* a ratio between 0 and 1
InUnitInterval(x) == x[2] > 0 /\ 0 <= x[1] /\ x[1] <= x[2]

\* C20: in a valid report the two uniqueness ratios and the two match ratios
\* lie in [0, 1], common_values is at most the smaller distinct count, and
\* each distinct count is at most the total of its side.
C20_ReportFiguresBounded ==
    ValidReport =>
        LET r == last.ret
        IN  /\ InUnitInterval(r.file1_uniqueness)
            /\ InUnitInterval(r.file2_uniqueness)
            /\ InUnitInterval(r.match_ratio_file1)
            /\ InUnitInterval(r.match_ratio_file2)
            /\ r.common_values <= Min(r.file1_unique, r.file2_unique)
            /\ r.file1_unique <= r.file1_total
            /\ r.file2_unique <= r.file2_total

\* C20 witness: a valid report on a column with values that differ only in
\* case, so that fewer common values are counted than distinct ones, and a
\* column that repeats a value.
C20_Witness ==
    /\ ValidReport
    /\ ~NoCaseVariants(df1[1], last.args[1])
    /\ 0 < last.ret.common_values
    /\ last.ret.common_values < last.ret.file1_unique
    /\ last.ret.file2_unique < last.ret.file2_total

\* C21: a dataset stored in df1 or df2 has at least one row and at least one
\* column, and no detect_merge_keys call raises.
C21_DetectNeverRaises ==
    /\ \A o \in {df1, df2} : o # <<>> => (Len(o[1].rows) >= 1 /\ Len(o[1].cols) >= 1)
    /\ last.op = "detect_merge_keys" => ~last.raised
====
